---- MODULE Spec2Model ----
(***************************************************************************)
(* Completion of names in type position                                    *)
(* (crates/ide-completion/src/completions/type_.rs).                       *)
(*                                                                         *)
(* One completion request runs one of the two entry points,                *)
(* complete_type_path or complete_inferred_type, against a read-only       *)
(* semantic model and appends candidates to the sink `acc`.  The answers   *)
(* of the semantic model (scopes, associated-item enumerations, inferred   *)
(* types) are inputs: every query draws its answer from a bounded set.     *)
(* complete_type_path is cut into steps at its semantic-model              *)
(* enumerations, so that the environment can raise the cancellation        *)
(* signal between two of them.                                             *)
(***************************************************************************)
EXTENDS Naturals, Sequences, FiniteSets

VARIABLES
    pc,          \* position of the running request inside its entry point
    handler,     \* which entry point serves the request
    ctx,         \* the CompletionContext of the request
    acc,         \* the sink: the sequence of operations performed on Completions
    seen,        \* the FxHashSet of the type-parameter / Self traversal
    traits_left, \* traits of traits_in_scope() not yet enumerated (inferred-self branch)
    visited,     \* what the semantic model's enumerations returned, in call order
    assoc_calls, \* the items add_assoc_item was called with, in call order
    type_of,     \* the answer of type_of_pat / type_of_expr
    cancelled    \* the environment's cancellation signal

vars == <<pc, handler, ctx, acc, seen, traits_left, visited, assoc_calls, type_of, cancelled>>

----------------------------------------------------------------------------
(* Bounds of the model. *)

\* longest answer of one associated-item enumeration
MaxVisits == 2

\* longest answer of one scope enumeration
MaxScope == 2

\* most traits traits_in_scope() returns
MaxTraits == 1

----------------------------------------------------------------------------
(* The data of the semantic model. *)

\* hir::AssocItem: Const | Function | TypeAlias, each value a distinct item.
AssocItems ==
    { [kind |-> "Const", id |-> "c1"],
      [kind |-> "Function", id |-> "f1"],
      [kind |-> "TypeAlias", id |-> "t1"],
      [kind |-> "TypeAlias", id |-> "t2"] }

\* hir::TypeAlias: the items a callback typed `alias: TypeAlias` can receive.
TypeAliases == { i \in AssocItems : i.kind = "TypeAlias" }

\* hir::ScopeDef, flattened over ModuleDef and GenericParam; fn_like is
\* Macro::is_fn_like and is read for macros only.
PlainScopeTags ==
    { "LifetimeParam", "Label", "Function", "Variant", "Static", "Local",
      "Const", "ConstParam", "ImplSelfType", "BuiltinType", "Adt", "Module",
      "Trait", "TypeAlias", "AdtSelfType", "Unknown", "TypeParam" }

ScopeDefs ==
    { [tag |-> t, fn_like |-> FALSE] : t \in PlainScopeTags }
        \cup { [tag |-> "Macro", fn_like |-> b] : b \in BOOLEAN }

Names == { "n" }

\* The (name, def) pairs a scope enumeration yields.
ScopeEntries == { [name |-> n, def |-> d] : n \in Names, d \in ScopeDefs }

Modules == { "m", "other" }

\* hir::PathResolution of the qualifier; "Local" and "Function" stand for the
\* variants complete_type_path has no arm for.
NoModule == "-"

TypeResolutionTags ==
    { "Adt", "TypeAlias", "BuiltinType", "Trait", "TypeParam", "SelfType" }

OtherResolutionTags == { "Local", "Function" }

Resolutions ==
    { [tag |-> "Module", module |-> m] : m \in Modules }
        \cup { [tag |-> t, module |-> NoModule]
                 : t \in TypeResolutionTags \cup OtherResolutionTags }

NoResolution == [tag |-> "None", module |-> NoModule]

\* Option<PathQualifierCtx>.
NoQualifier ==
    [present |-> FALSE, is_infer_qualifier |-> FALSE, resolution |-> NoResolution]

Qualifiers ==
    { NoQualifier,
      [present |-> TRUE, is_infer_qualifier |-> TRUE, resolution |-> NoResolution],
      [present |-> TRUE, is_infer_qualifier |-> FALSE, resolution |-> NoResolution] }
        \cup { [present |-> TRUE, is_infer_qualifier |-> FALSE, resolution |-> r]
                 : r \in Resolutions }

\* Option<ImmediateLocation>.  `arg_list` describes a GenericArgList: whether
\* its parent is a path segment, whether that segment sits in a type bound and
\* whether the segment's parent path resolves to a trait.  `annotation` is the
\* TypeAnnotation variant and `has_node` whether its pattern / expression is
\* there.
NoDetail == "-"

Locations ==
    { [kind |-> k, arg_list |-> NoDetail, annotation |-> NoDetail, has_node |-> FALSE]
        : k \in { "None", "TypeBound" } }
    \cup
    { [kind |-> "GenericArgList", arg_list |-> a, annotation |-> NoDetail,
       has_node |-> FALSE]
        : a \in { "NoPathSegment", "NotInTypeBound", "NotATrait", "Trait" } }
    \cup
    { [kind |-> "TypeAnnotation", arg_list |-> NoDetail, annotation |-> t,
       has_node |-> h]
        : t \in { "Let", "FnParam", "Const", "RetType" }, h \in BOOLEAN }

PreviousTokens == { "impl", "for", "other" }

\* The CompletionContext.  path_kind "None" is a context without a path.
Contexts ==
    [ path_kind : { "None", "Type", "Expr" },
      is_absolute_path : BOOLEAN,
      qualifier : Qualifiers,
      completion_location : Locations,
      previous_token : PreviousTokens,
      module : Modules ]

\* What complete_type_path reads.  It never looks at ctx.module nor inside a
\* TypeAnnotation, and returns at once unless the path is a type path.  With a
\* qualifier it never reads is_absolute_path nor the shape of a generic
\* argument list, and reads the previous token in the module arm only; the
\* fields a branch never reads are held at one value.
TypePathContexts ==
    { c \in Contexts :
        /\ c.module = "m"
        /\ c.qualifier.resolution.module # "other"
        /\ c.completion_location.kind = "TypeAnnotation"
             => (c.completion_location.annotation = "Let"
                   /\ c.completion_location.has_node)
        /\ c.path_kind # "Type"
             => (/\ ~c.is_absolute_path
                 /\ c.qualifier = NoQualifier
                 /\ c.completion_location.kind = "None"
                 /\ c.previous_token = "other")
        /\ c.qualifier.present
             => (/\ ~c.is_absolute_path
                 /\ c.completion_location.kind \in { "None", "GenericArgList" }
                 /\ c.completion_location.arg_list \in { NoDetail, "NoPathSegment" }
                 /\ c.qualifier.resolution.tag # "Module"
                      => c.previous_token = "other") }

\* What complete_inferred_type reads: it never looks at the previous token nor
\* inside a GenericArgList, and a context without a path has no qualifier.
InferredTypeContexts ==
    { c \in Contexts :
        /\ c.previous_token = "other"
        /\ c.completion_location.kind = "GenericArgList"
             => c.completion_location.arg_list = "NoPathSegment"
        /\ c.qualifier.present
             => (~c.qualifier.is_infer_qualifier
                   /\ c.qualifier.resolution.tag
                        \in { "None", "Module", "Adt" })
        /\ c.path_kind = "None"
             => (~c.is_absolute_path /\ c.qualifier = NoQualifier) }

\* The (adjusted) inferred type: whether as_adt() is Some, the module of that
\* ADT, and whether display_source_code renders it.
NoType == [some |-> FALSE, adt |-> FALSE, module |-> NoModule, renderable |-> FALSE]

Types ==
    { [some |-> TRUE, adt |-> TRUE, module |-> m, renderable |-> r]
        : m \in Modules, r \in BOOLEAN }
    \cup
    { [some |-> TRUE, adt |-> FALSE, module |-> NoModule, renderable |-> r]
        : r \in BOOLEAN }

\* All sequences over S of length at most n.
SeqsUpTo(S, n) == UNION { [1..k -> S] : k \in 0..n }

----------------------------------------------------------------------------
(* The sink. *)

add_resolution(a, name, def) ==
    Append(a, [op |-> "add_resolution", name |-> name, def |-> def])

add_type_alias(a, alias) == Append(a, [op |-> "add_type_alias", item |-> alias])

add_type_alias_with_eq(a, alias) ==
    Append(a, [op |-> "add_type_alias_with_eq", item |-> alias])

add_const(a, ct) == Append(a, [op |-> "add_const", item |-> ct])

add_crate_roots(a) == Append(a, [op |-> "add_crate_roots"])

add_nameref_keywords_with_colon(a) ==
    Append(a, [op |-> "add_nameref_keywords_with_colon"])

add_type_inference(a, ty, module) ==
    Append(a, [op |-> "add_type_inference", ty |-> ty, module |-> module])

----------------------------------------------------------------------------
(* The helpers of complete_type_path. *)

expects_generic_arg(c) == c.completion_location.kind = "GenericArgList"

previous_token_is(c, t) == c.previous_token = t

\* scope_def_applicable with constants accepted everywhere.
scope_def_applicable_const_always(c, def) ==
    CASE def.tag \in { "LifetimeParam", "Label" } -> FALSE
      [] def.tag \in { "Function", "Variant", "Static", "Local" } -> FALSE
      [] def.tag \in { "Const", "ConstParam" } -> TRUE
      [] def.tag = "ImplSelfType" ->
            ~previous_token_is(c, "impl") /\ ~previous_token_is(c, "for")
      [] def.tag = "Macro" -> def.fn_like
      [] OTHER -> TRUE

scope_def_applicable(c, def) ==
    CASE def.tag \in { "LifetimeParam", "Label" } -> FALSE
      [] def.tag \in { "Function", "Variant", "Static", "Local" } -> FALSE
      [] def.tag \in { "Const", "ConstParam" } -> expects_generic_arg(c)
      [] def.tag = "ImplSelfType" ->
            ~previous_token_is(c, "impl") /\ ~previous_token_is(c, "for")
      [] def.tag = "Macro" -> def.fn_like
      [] OTHER -> TRUE

\* add_assoc_item without the generic-argument guard on constants.
add_assoc_item_const_always(a, c, item) ==
    CASE item.kind = "Const" -> add_const(a, item)
      [] item.kind = "Function" -> a
      [] OTHER -> add_type_alias(a, item)

add_assoc_item(a, c, item) ==
    CASE item.kind = "Const" /\ expects_generic_arg(c) -> add_const(a, item)
      [] item.kind \in { "Function", "Const" } -> a
      [] OTHER -> add_type_alias(a, item)

\* The trait-bound filter falling back on the general one for non-macros.
type_bound_applicable_general(def) ==
    CASE def.tag = "Macro" -> def.fn_like
      [] def.tag \in { "Trait", "Module", "Adt", "TypeAlias", "BuiltinType" } -> TRUE
      [] OTHER -> FALSE

\* The filter of the trait-bound position.
type_bound_applicable(def) ==
    CASE def.tag = "Macro" -> def.fn_like
      [] def.tag \in { "Trait", "Module" } -> TRUE
      [] OTHER -> FALSE

\* seen.insert(item) with its answer ignored.
seen_insert_ignored(s, item) == TRUE

\* seen.insert(item): TRUE iff the item was not in the set.
seen_insert(s, item) == item \notin s

RECURSIVE AddAssocItems(_, _, _)
\* add_assoc_item on every item of an enumeration, in order.
AddAssocItems(a, c, items) ==
    IF items = <<>> THEN a
    ELSE AddAssocItems(add_assoc_item(a, c, Head(items)), c, Tail(items))

RECURSIVE AddTypeAliases(_, _)
\* add_type_alias on every type alias of an enumeration, in order.
AddTypeAliases(a, items) ==
    IF items = <<>> THEN a
    ELSE AddTypeAliases(
            IF Head(items).kind = "TypeAlias" THEN add_type_alias(a, Head(items))
            ELSE a,
            Tail(items))

RECURSIVE AddTypeAliasesWithEq(_, _)
\* add_type_alias_with_eq on every type alias of an enumeration, in order.
AddTypeAliasesWithEq(a, items) ==
    IF items = <<>> THEN a
    ELSE AddTypeAliasesWithEq(
            IF Head(items).kind = "TypeAlias"
            THEN add_type_alias_with_eq(a, Head(items))
            ELSE a,
            Tail(items))

RECURSIVE AddApplicable(_, _, _)
\* add_resolution on every scope entry scope_def_applicable accepts.
AddApplicable(a, c, entries) ==
    IF entries = <<>> THEN a
    ELSE AddApplicable(
            IF scope_def_applicable(c, Head(entries).def)
            THEN add_resolution(a, Head(entries).name, Head(entries).def)
            ELSE a,
            c, Tail(entries))

RECURSIVE AddTypeBoundNames(_, _)
\* add_resolution on every scope entry the trait-bound filter accepts.
AddTypeBoundNames(a, entries) ==
    IF entries = <<>> THEN a
    ELSE AddTypeBoundNames(
            IF type_bound_applicable(Head(entries).def)
            THEN add_resolution(a, Head(entries).name, Head(entries).def)
            ELSE a,
            Tail(entries))

RECURSIVE Deduplicated(_, _)
\* The items of an enumeration the seen-set lets through, in order.
Deduplicated(items, s) ==
    IF items = <<>> THEN <<>>
    ELSE IF seen_insert(s, Head(items))
         THEN <<Head(items)>> \o Deduplicated(Tail(items), s \cup { Head(items) })
         ELSE Deduplicated(Tail(items), s)

Range(s) == { s[i] : i \in 1..Len(s) }

Visit(pass, items) == [pass |-> pass, items |-> items]

----------------------------------------------------------------------------
(* Initial state: no request is running. *)

Init ==
    /\ pc = "idle"
    /\ handler = "none"
    /\ ctx \in { [ path_kind |-> "None", is_absolute_path |-> FALSE,
                   qualifier |-> NoQualifier,
                   completion_location |->
                       [kind |-> "None", arg_list |-> NoDetail,
                        annotation |-> NoDetail, has_node |-> FALSE],
                   previous_token |-> "other", module |-> "m" ] }
    /\ acc = <<>>
    /\ seen = {}
    /\ traits_left = 0
    /\ visited = <<>>
    /\ assoc_calls = <<>>
    /\ type_of = NoType
    /\ cancelled = FALSE

----------------------------------------------------------------------------
(* complete_type_path. *)

\* `match resolution` with the catch-all arm falling into the trait arm.
ResolutionArm_no_catch_all(res) ==
    CASE res.tag = "Module" -> "module_scope"
      [] res.tag \in { "Adt", "TypeAlias", "BuiltinType" } -> "path_candidates"
      [] res.tag \in { "TypeParam", "SelfType" } -> "path_candidates_dedup"
      [] OTHER -> "trait_items"

\* The arm of `match resolution` that runs after the shorthand pass.
ResolutionArm(res) ==
    CASE res.tag = "Module" -> "module_scope"
      [] res.tag \in { "Adt", "TypeAlias", "BuiltinType" } -> "path_candidates"
      [] res.tag = "Trait" -> "trait_items"
      [] res.tag \in { "TypeParam", "SelfType" } -> "path_candidates_dedup"
      [] OTHER -> "done"

\* The unqualified arms with the absolute-path guard dropped.
UnqualifiedArm_no_absolute_guard(a, c) ==
    [ pc |-> IF c.completion_location.kind = "TypeBound"
             THEN "type_bound_names"
             ELSE IF /\ c.completion_location.kind = "GenericArgList"
                     /\ c.completion_location.arg_list = "Trait"
             THEN "assoc_types_with_eq"
             ELSE "all_names",
      acc |-> add_nameref_keywords_with_colon(a) ]

\* The arms `None if is_absolute_path` and `None` of the match on the
\* qualifier, up to the first enumeration: the sink and where the request
\* goes on.
UnqualifiedArm(a, c) ==
    IF c.is_absolute_path
    THEN [ pc |-> "done", acc |-> add_crate_roots(a) ]
    ELSE [ pc |-> IF c.completion_location.kind = "TypeBound"
                  THEN "type_bound_names"
                  ELSE IF /\ c.completion_location.kind = "GenericArgList"
                          /\ c.completion_location.arg_list = "Trait"
                  THEN "assoc_types_with_eq"
                  ELSE "all_names",
           acc |-> add_nameref_keywords_with_colon(a) ]

\* Entry up to the first enumeration: the match on path_context(), the match
\* on the qualifier, and for an unqualified path the crate roots or keywords.
TypePathEnter ==
    /\ pc = "idle"
    /\ \E c \in TypePathContexts, n \in 0..MaxTraits :
        /\ ctx' = c
        /\ handler' = "complete_type_path"
        /\ IF c.path_kind # "Type"
           THEN pc' = "done" /\ acc' = acc /\ traits_left' = 0
           ELSE IF c.qualifier.present
           THEN /\ acc' = acc
                /\ IF c.qualifier.is_infer_qualifier
                   THEN /\ traits_left' = n
                        /\ pc' = IF n = 0 THEN "done" ELSE "infer_trait_items"
                   ELSE /\ traits_left' = 0
                        /\ pc' = IF c.qualifier.resolution.tag = "None"
                                 THEN "done" ELSE "shorthand"
           ELSE /\ pc' = UnqualifiedArm(acc, c).pc
                /\ acc' = UnqualifiedArm(acc, c).acc
                /\ traits_left' = 0
    /\ UNCHANGED <<seen, visited, assoc_calls, type_of, cancelled>>

\* Inferred-self qualifier: the items of the next trait in scope.
InferTraitItems ==
    /\ pc = "infer_trait_items"
    /\ traits_left > 0
    /\ \E items \in SeqsUpTo(AssocItems, MaxVisits) :
        /\ acc' = AddAssocItems(acc, ctx, items)
        /\ visited' = Append(visited, Visit("Trait::items", items))
        /\ assoc_calls' = assoc_calls \o items
    /\ traits_left' = traits_left - 1
    /\ pc' = IF traits_left = 1 THEN "done" ELSE "infer_trait_items"
    /\ UNCHANGED <<handler, ctx, seen, type_of, cancelled>>

\* assoc_type_shorthand_candidates on the qualifier's resolution, then the
\* choice of the arm of `match resolution`.
ShorthandCandidates ==
    /\ pc = "shorthand"
    /\ \E aliases \in SeqsUpTo(TypeAliases, MaxVisits) :
        /\ acc' = AddTypeAliases(acc, aliases)
        /\ visited' = Append(visited, Visit("assoc_type_shorthand_candidates", aliases))
    /\ pc' = ResolutionArm(ctx.qualifier.resolution)
    /\ UNCHANGED <<handler, ctx, seen, traits_left, assoc_calls, type_of, cancelled>>

\* Module qualifier: the module's scope through scope_def_applicable.
ModuleScope ==
    /\ pc = "module_scope"
    /\ \E entries \in SeqsUpTo(ScopeEntries, MaxScope) :
        /\ acc' = AddApplicable(acc, ctx, entries)
        /\ visited' = Append(visited, Visit("Module::scope", entries))
    /\ pc' = "done"
    /\ UNCHANGED <<handler, ctx, seen, traits_left, assoc_calls, type_of, cancelled>>

\* ADT / type alias / builtin type qualifier: iterate_path_candidates.
PathCandidates ==
    /\ pc = "path_candidates"
    /\ \E items \in SeqsUpTo(AssocItems, MaxVisits) :
        /\ acc' = AddAssocItems(acc, ctx, items)
        /\ visited' = Append(visited, Visit("iterate_path_candidates", items))
        /\ assoc_calls' = assoc_calls \o items
    /\ pc' = "assoc_items"
    /\ UNCHANGED <<handler, ctx, seen, traits_left, type_of, cancelled>>

\* ADT / type alias / builtin type qualifier: iterate_assoc_items.
AssocTypeItems ==
    /\ pc = "assoc_items"
    /\ \E items \in SeqsUpTo(AssocItems, MaxVisits) :
        /\ acc' = AddTypeAliases(acc, items)
        /\ visited' = Append(visited, Visit("iterate_assoc_items", items))
    /\ pc' = "done"
    /\ UNCHANGED <<handler, ctx, seen, traits_left, assoc_calls, type_of, cancelled>>

\* Trait qualifier: the trait's own items.
TraitItems ==
    /\ pc = "trait_items"
    /\ \E items \in SeqsUpTo(AssocItems, MaxVisits) :
        /\ acc' = AddAssocItems(acc, ctx, items)
        /\ visited' = Append(visited, Visit("Trait::items", items))
        /\ assoc_calls' = assoc_calls \o items
    /\ pc' = "done"
    /\ UNCHANGED <<handler, ctx, seen, traits_left, type_of, cancelled>>

\* Type parameter / Self type qualifier: iterate_path_candidates through a
\* fresh seen-set.
PathCandidatesDedup ==
    /\ pc = "path_candidates_dedup"
    /\ \E items \in SeqsUpTo(AssocItems, MaxVisits) :
        LET forwarded == Deduplicated(items, {}) IN
        /\ acc' = AddAssocItems(acc, ctx, forwarded)
        /\ seen' = Range(items)
        /\ visited' = Append(visited, Visit("iterate_path_candidates_dedup", items))
        /\ assoc_calls' = assoc_calls \o forwarded
    /\ pc' = "done"
    /\ UNCHANGED <<handler, ctx, traits_left, type_of, cancelled>>

\* Unqualified path in trait-bound position: all names, macros / traits /
\* modules only, then return.
TypeBoundNames ==
    /\ pc = "type_bound_names"
    /\ \E entries \in SeqsUpTo(ScopeEntries, MaxScope) :
        /\ acc' = AddTypeBoundNames(acc, entries)
        /\ visited' = Append(visited, Visit("process_all_names", entries))
    /\ pc' = "done"
    /\ UNCHANGED <<handler, ctx, seen, traits_left, assoc_calls, type_of, cancelled>>

\* Unqualified path in the generic arguments of a trait bound: the associated
\* types of the trait and its supertraits, each with `=`.
AssocTypesWithEq ==
    /\ pc = "assoc_types_with_eq"
    /\ \E items \in SeqsUpTo(AssocItems, MaxVisits) :
        /\ acc' = AddTypeAliasesWithEq(acc, items)
        /\ visited' = Append(visited, Visit("items_with_supertraits", items))
    /\ pc' = "all_names"
    /\ UNCHANGED <<handler, ctx, seen, traits_left, assoc_calls, type_of, cancelled>>

\* Unqualified path: all names through scope_def_applicable.
AllNames ==
    /\ pc = "all_names"
    /\ \E entries \in SeqsUpTo(ScopeEntries, MaxScope) :
        /\ acc' = AddApplicable(acc, ctx, entries)
        /\ visited' = Append(visited, Visit("process_all_names", entries))
    /\ pc' = "done"
    /\ UNCHANGED <<handler, ctx, seen, traits_left, assoc_calls, type_of, cancelled>>

----------------------------------------------------------------------------
(* complete_inferred_type. *)

\* path_qualifier: the qualifier of the path context, if there is one.
path_qualifier(c) == IF c.path_kind # "None" THEN c.qualifier ELSE NoQualifier

\* complete_inferred_type without the comparison of the ADT's module.
InferredTypeResult_any_module(a, c, x) ==
    IF c.path_kind # "None" /\ c.is_absolute_path
    THEN a
    ELSE IF c.completion_location.kind # "TypeAnnotation"
    THEN a
    ELSE IF ~c.completion_location.has_node \/ ~x.some
    THEN a
    ELSE IF ~x.renderable
    THEN a
    ELSE add_type_inference(a, x,
            IF path_qualifier(c).present /\ path_qualifier(c).resolution.tag = "Module"
            THEN path_qualifier(c).resolution.module
            ELSE c.module)

\* complete_inferred_type without the early return on an absolute path.
InferredTypeResult_absolute(a, c, x) ==
    IF c.completion_location.kind # "TypeAnnotation"
    THEN a
    ELSE IF ~c.completion_location.has_node \/ ~x.some
    THEN a
    ELSE IF /\ path_qualifier(c).present
            /\ path_qualifier(c).resolution.tag = "Module"
            /\ (~x.adt \/ x.module # path_qualifier(c).resolution.module)
    THEN a
    ELSE IF ~x.renderable
    THEN a
    ELSE add_type_inference(a, x,
            IF path_qualifier(c).present /\ path_qualifier(c).resolution.tag = "Module"
            THEN path_qualifier(c).resolution.module
            ELSE c.module)

\* The candidates complete_inferred_type adds for context c when the
\* semantic model infers type x.
InferredTypeResult(a, c, x) ==
    IF c.path_kind # "None" /\ c.is_absolute_path
    THEN a
    ELSE IF c.completion_location.kind # "TypeAnnotation"
    THEN a
    ELSE IF ~c.completion_location.has_node \/ ~x.some
    THEN a
    ELSE IF /\ path_qualifier(c).present
            /\ path_qualifier(c).resolution.tag = "Module"
            /\ (~x.adt \/ x.module # path_qualifier(c).resolution.module)
    THEN a
    ELSE IF ~x.renderable
    THEN a
    ELSE add_type_inference(a, x,
            IF path_qualifier(c).present /\ path_qualifier(c).resolution.tag = "Module"
            THEN path_qualifier(c).resolution.module
            ELSE c.module)

CompleteInferredType ==
    /\ pc = "idle"
    /\ \E c \in InferredTypeContexts, x \in Types \cup { NoType } :
        /\ ctx' = c
        /\ type_of' = x
        /\ acc' = InferredTypeResult(acc, c, x)
    /\ handler' = "complete_inferred_type"
    /\ pc' = "done"
    /\ UNCHANGED <<seen, traits_left, visited, assoc_calls, cancelled>>

----------------------------------------------------------------------------
(* The environment. *)

\* A newer request arrives while this one is between two enumerations.
Cancel ==
    /\ pc \notin { "idle", "done" }
    /\ ~cancelled
    /\ cancelled' = TRUE
    /\ UNCHANGED <<pc, handler, ctx, acc, seen, traits_left, visited, assoc_calls,
                   type_of>>

Next ==
    \/ TypePathEnter
    \/ InferTraitItems
    \/ ShorthandCandidates
    \/ ModuleScope
    \/ PathCandidates
    \/ AssocTypeItems
    \/ TraitItems
    \/ PathCandidatesDedup
    \/ TypeBoundNames
    \/ AssocTypesWithEq
    \/ AllNames
    \/ CompleteInferredType
    \/ Cancel

Spec == Init /\ [][Next]_vars

----------------------------------------------------------------------------
(* Vocabulary of the properties. *)

IsTypePath == handler = "complete_type_path"

IsInferredType == handler = "complete_inferred_type"

Qualified == ctx.qualifier.present

QualifierTag == ctx.qualifier.resolution.tag

InGenericArgList == ctx.completion_location.kind = "GenericArgList"

\* The sink operations that take an associated item.
AssocOps == { "add_type_alias", "add_const", "add_type_alias_with_eq" }

\* How many times the sink was handed the associated item.
Handed(item) ==
    Cardinality({ i \in 1..Len(acc) : acc[i].op \in AssocOps /\ acc[i].item = item })

\* The scope definition was added to the sink as a named resolution.
Surfaced(def) ==
    \E i \in 1..Len(acc) : acc[i].op = "add_resolution" /\ acc[i].def = def

HasInferredCandidate ==
    \E i \in 1..Len(acc) : acc[i].op = "add_type_inference"

AllowedInTypeBound(def) ==
    \/ def.tag \in { "Trait", "Module" }
    \/ def.tag = "Macro" /\ def.fn_like

----------------------------------------------------------------------------
(* C1 *)

\* C1: during one complete_type_path request, whatever the semantic model's
\* enumerations return, every associated item is handed to the sink at most
\* once.
C1_AtMostOnce ==
    IsTypePath => \A item \in AssocItems : Handed(item) <= 1

----------------------------------------------------------------------------
(* C2 *)

\* C2: a request during which the cancellation signal was raised delivers no
\* candidate: when it is over, the sink is empty.
C2_CancelledDeliversNothing ==
    (IsTypePath /\ pc = "done" /\ cancelled) => acc = <<>>

----------------------------------------------------------------------------
(* C3 *)

\* A qualifier that is not the inferred-self marker and whose resolution is
\* absent or a variant the match has no arm for.
UnhandledQualifier ==
    /\ IsTypePath
    /\ ctx.path_kind = "Type"
    /\ Qualified
    /\ ~ctx.qualifier.is_infer_qualifier
    /\ QualifierTag \in { "None" } \cup OtherResolutionTags

----------------------------------------------------------------------------
(* C4 *)

TypeBoundRequest ==
    /\ IsTypePath
    /\ ctx.path_kind = "Type"
    /\ ~Qualified
    /\ ~ctx.is_absolute_path
    /\ ctx.completion_location.kind = "TypeBound"

\* C4: for an unqualified, non-absolute path in trait-bound position the named
\* resolutions in the sink are function-like macros, traits and modules only,
\* whatever scope_def_applicable answers for the others; the request ends
\* after that one enumeration, with no `=` candidate and no second scope
\* enumeration.
C4_TypeBoundOnly ==
    TypeBoundRequest =>
        /\ pc \in { "type_bound_names", "done" }
        /\ \A i \in 1..Len(acc) :
              /\ acc[i].op = "add_resolution" => AllowedInTypeBound(acc[i].def)
              /\ acc[i].op # "add_type_alias_with_eq"
        /\ pc = "done" =>
              /\ Len(visited) = 1
              /\ Len(acc) = 1 + Cardinality({ i \in 1..Len(visited[1].items) :
                                    AllowedInTypeBound(visited[1].items[i].def) })

\* A finished trait-bound request whose scope held an ADT, which the general
\* filter accepts, and a trait: the trait is in the sink, the ADT is not.
C4_Witness ==
    /\ TypeBoundRequest
    /\ pc = "done"
    /\ \E i \in 1..Len(visited[1].items) :
          /\ visited[1].items[i].def.tag = "Adt"
          /\ scope_def_applicable(ctx, visited[1].items[i].def)
    /\ \E i \in 1..Len(acc) :
          acc[i].op = "add_resolution" /\ acc[i].def.tag = "Trait"
    /\ ~\E i \in 1..Len(acc) :
          acc[i].op = "add_resolution" /\ acc[i].def.tag = "Adt"

----------------------------------------------------------------------------
(* C5 *)

ModuleQualifiedInference ==
    /\ IsInferredType
    /\ pc = "done"
    /\ Qualified
    /\ QualifierTag = "Module"

\* C5: with a qualifier resolved to module M, complete_inferred_type adds an
\* inferred-type candidate only if the inferred type is an ADT whose module
\* is M.
C5_SameModuleAdt ==
    (ModuleQualifiedInference /\ HasInferredCandidate) =>
        /\ type_of.some
        /\ type_of.adt
        /\ type_of.module = ctx.qualifier.resolution.module

\* A module-qualified request that did get its inferred-type candidate.
C5_Witness == ModuleQualifiedInference /\ HasInferredCandidate

----------------------------------------------------------------------------
(* C6 *)

\* C6: for an absolute path complete_inferred_type adds nothing, whatever the
\* annotation and whatever type is inferred.
C6_AbsoluteNeverInfers ==
    (IsInferredType /\ pc = "done" /\ ctx.path_kind # "None" /\ ctx.is_absolute_path)
        => acc = <<>>

\* An absolute path at a return type whose expression has a renderable
\* inferred type: everything but the leading `::` would yield a candidate.
C6_Witness ==
    /\ IsInferredType
    /\ pc = "done"
    /\ ctx.path_kind = "Type"
    /\ ctx.is_absolute_path
    /\ ~Qualified
    /\ ctx.completion_location.kind = "TypeAnnotation"
    /\ ctx.completion_location.annotation = "RetType"
    /\ ctx.completion_location.has_node
    /\ type_of.some
    /\ type_of.renderable
    /\ acc = <<>>

----------------------------------------------------------------------------
(* C7 *)

\* The enumerations whose entries go through scope_def_applicable.
IsFilteredPass(k) ==
    \/ visited[k].pass = "Module::scope"
    \/ visited[k].pass = "process_all_names"
         /\ ctx.completion_location.kind # "TypeBound"

ValueTags == { "Function", "Variant", "Static", "Local" }

ConstTags == { "Const", "ConstParam" }

\* C7: on every scope entry it is applied to, scope_def_applicable answers
\* false for a function, enum variant, static or local outside a generic
\* argument list, and for a constant or const parameter it answers false
\* outside a generic argument list and true inside; the sink holds the entry
\* accordingly.
C7_ValuesAndConstants ==
    IsTypePath =>
        \A k \in 1..Len(visited) :
            IsFilteredPass(k) =>
                \A i \in 1..Len(visited[k].items) :
                    LET def == visited[k].items[i].def IN
                    /\ (def.tag \in ValueTags /\ ~InGenericArgList) =>
                          (~scope_def_applicable(ctx, def) /\ ~Surfaced(def))
                    /\ def.tag \in ConstTags =>
                          /\ scope_def_applicable(ctx, def) = InGenericArgList
                          /\ Surfaced(def) = InGenericArgList

\* A finished request inside a generic argument list whose scope held a
\* constant and a function: the constant is in the sink, the function is not.
C7_Witness ==
    /\ IsTypePath
    /\ pc = "done"
    /\ InGenericArgList
    /\ \E k \in 1..Len(visited) :
          /\ IsFilteredPass(k)
          /\ \E i, j \in 1..Len(visited[k].items) :
                /\ visited[k].items[i].def.tag = "Const"
                /\ Surfaced(visited[k].items[i].def)
                /\ visited[k].items[j].def.tag = "Function"
                /\ ~Surfaced(visited[k].items[j].def)

----------------------------------------------------------------------------
(* C8 *)

AbsoluteUnqualified ==
    /\ IsTypePath
    /\ ctx.path_kind = "Type"
    /\ ~Qualified
    /\ ctx.is_absolute_path

\* C8: for an unqualified absolute path the one sink operation is
\* add_crate_roots, and no enumeration runs, whatever the location.
C8_CrateRootsOnly ==
    AbsoluteUnqualified =>
        /\ pc = "done"
        /\ acc = << [op |-> "add_crate_roots"] >>
        /\ visited = <<>>

\* An absolute path in trait-bound position, finished.
C8_Witness ==
    /\ AbsoluteUnqualified
    /\ ctx.completion_location.kind = "TypeBound"
    /\ pc = "done"
    /\ Len(acc) = 1

----------------------------------------------------------------------------
(* C9 *)

\* C9: in every branch of complete_type_path no associated function reaches
\* the sink, an associated constant reaches it only inside a generic argument
\* list, and every item goes through the operation of its kind: a constant
\* through add_const, a type alias through add_type_alias (with a qualifier)
\* or add_type_alias_with_eq (without).
C9_KindsAndOperations ==
    IsTypePath =>
        \A i \in 1..Len(acc) :
            acc[i].op \in AssocOps =>
                /\ acc[i].item.kind # "Function"
                /\ acc[i].item.kind = "Const" =>
                      (acc[i].op = "add_const" /\ InGenericArgList)
                /\ acc[i].item.kind = "TypeAlias" =>
                      acc[i].op = IF Qualified THEN "add_type_alias"
                                  ELSE "add_type_alias_with_eq"

\* A finished qualified request inside a generic argument list where the
\* terminal filter saw a function, a constant and a type alias.
C9_Witness ==
    /\ IsTypePath
    /\ pc = "done"
    /\ Qualified
    /\ \E i \in 1..Len(assoc_calls) : assoc_calls[i].kind = "Function"
    /\ \E i \in 1..Len(acc) : acc[i].op = "add_const"
    /\ \E i \in 1..Len(acc) : acc[i].op = "add_type_alias"

----------------------------------------------------------------------------
(* C10 *)

DedupRequest ==
    /\ IsTypePath
    /\ ctx.path_kind = "Type"
    /\ Qualified
    /\ ~ctx.qualifier.is_infer_qualifier
    /\ QualifierTag \in { "TypeParam", "SelfType" }

\* C10: with a qualifier resolved to a type parameter or the Self type of an
\* impl, the terminal filter is called at most once per item, however often
\* iterate_path_candidates visits it; the seen-set starts empty and ends as
\* the set of the visited items, each of which was forwarded.
C10_ForwardedOnce ==
    DedupRequest =>
        /\ \A i, j \in 1..Len(assoc_calls) :
              assoc_calls[i] = assoc_calls[j] => i = j
        /\ pc # "done" => (seen = {} /\ assoc_calls = <<>>)
        /\ pc = "done" =>
              /\ Len(visited) = 2
              /\ seen = Range(visited[2].items)
              /\ Range(assoc_calls) = seen

\* A finished type-parameter request in which iterate_path_candidates visited
\* one type alias twice and the sink got it once from that traversal.
C10_Witness ==
    /\ DedupRequest
    /\ pc = "done"
    /\ Len(visited[2].items) = 2
    /\ visited[2].items[1] = visited[2].items[2]
    /\ visited[2].items[1].kind = "TypeAlias"
    /\ visited[1].items = <<>>
    /\ Len(assoc_calls) = 1
    /\ Handed(visited[2].items[1]) = 1

====
